---- MODULE Spec2Model ----
(***************************************************************************)
(* Control plane of the resolver daemon (daemon/engine.c, daemon/main.c):  *)
(* the ordered module registry (engine_register / engine_unregister) and   *)
(* the worker broadcast (l_map).                                           *)
(*                                                                         *)
(* Array positions are 0-based as in the C code; At(arr, i) reads arr[i].  *)
(***************************************************************************)
EXTENDS Integers, Sequences, FiniteSets, TLC

\* ---------------------------------------------------------------- bounds
\* Number of distinct plugin names the operator may use.
NumNames == 4

\* Largest number of sibling pipes in ipc_set.
MaxPipes == 2

\* Number of distinct reply texts a sibling may send.
NumReplies == 2

\* Largest integer key of a Lua table handed to l_tojson.
MaxIndex == 3

\* Largest number of entries of a Lua table handed to l_tojson.
MaxEntries == 2

\* Largest number of addresses main binds.
MaxAddrs == 2

\* Largest number of engine_stop calls before the event loop returns.
MaxStops == 2

\* Largest number of connections the listener accepts.
MaxClients == 3

\* ------------------------------------------------------------- constants
NULL == "NULL"

\* The descriptor of the process's own input.
STDIN_FILENO == 0

\* Interval of the periodic maintenance, in milliseconds.
CLEANUP_TIMER == 5 * 60 * 1000

\* sizeof(len) and sizeof(rlen) of l_map: both are uint32_t.
sizeof_len == 4

NameOf(i) == "m" \o ToString(i)

Names == { NameOf(i) : i \in 1..NumNames }

\* The modules init_resolver registers, in its order.
BuiltIns == <<"iterate", "validate", "rrcache", "pktcache">>

\* What the plugin called NameOf(i) exposes once loaded (kr_module.config,
\* kr_module.props): fixed per plugin, all four shapes occur. The built-in
\* modules are layers only: they have neither.
Catalogue(name) ==
    IF \E k \in 1..Len(BuiltIns) : BuiltIns[k] = name
    THEN [config |-> FALSE, props |-> FALSE]
    ELSE LET i == CHOOSE j \in 1..NumNames : NameOf(j) = name
         IN  [config |-> (i % 4) \in {1, 0}, props |-> (i % 4) \in {3, 0}]

\* Directives engine_register is called with: none, "<", ">", anything else.
Precedences == {NULL, "<", ">", "~"}

\* Outcomes of the allocation, of kr_module_load / ffimodule_register_lua and
\* of array_push inside one engine_register call.
LoadOutcomes == {"malloc_fail", "native", "native_fail", "lua", "lua_fail", "push_fail"}

HookOutcomes == {"hook_ok", "hook_fail"}

\* --------------------------------------------------------------- state
VARIABLES
    modules,      \* engine->modules: sequence of struct kr_module
    globals,      \* module globals of the Lua state: set of <<name, entry points>>
    call,         \* the last API call: its arguments, environment outcome, result
    old_modules,  \* engine->modules when the last API call was entered
    old_globals,  \* the module globals when the last API call was entered
    live,         \* names whose latest register succeeded, minus names unregistered
    ipc_set,      \* engine->ipc_set: sibling pipe descriptors
    pc,           \* position of l_map: "idle", "siblings", "blocked", "returned"
    i,            \* loop index of l_map
    reply,        \* the Lua table l_map builds
    local,        \* what engine_cmd left on the stack for the leader
    served,       \* per sibling, in loop order, the value l_map recorded for it
    exchanged,    \* per sibling, in loop order, how its exchange ended and its reply text
    cmd_len,      \* the variable len of l_map: strlen(cmd)
    io_log,       \* the pipe operations of the current broadcast, in the order made
    running,      \* the callback the event loop thread is in, or "none"
    lua_value,    \* the Lua value on top of the stack when l_tojson is entered
    json_text,    \* the text json_encode returns: a sequence of tokens
    lua_result,   \* the Lua value l_unpack_json leaves on the stack
    pack_pc,      \* position of the marshalling: "value", "packed", "unpacked", "error"
    main_pc,      \* position of main
    lua_state,    \* engine->L: "NULL", "open", or "closed" once lua_close has run
    updater,      \* engine->updater: "NULL", "armed", or "closing" once uv_close has run
    timer,        \* <<timeout, repeat>> uv_timer_start was called with, <<0, 0>> before
    main_ret,     \* the variable ret of main
    init_ret,     \* what engine_init returned
    first_error,  \* the error of the first step of engine_init that failed
    binds,        \* per address of addr_set, how network_listen went
    conf,         \* how the scripts of engine_loadconf went
    start_ret,    \* what engine_start returned
    loop_entered, \* uv_run was called
    stop_flag,    \* uv_stop was called
    stops,        \* number of engine_stop calls
    timer_closes, \* number of uv_close calls on the timer
    deinits,      \* number of engine_deinit calls
    exit_code,    \* how the process ended
    g_quiet,      \* quiet mode
    g_interactive, \* the control channel is the process's own input
    listener,     \* the listening pipe of run_worker: "none" or "listening"
    clients,      \* the accepted connections that are open
    accepted,     \* number of connections accepted so far
    tty_call,     \* the last callback of the control channel and what it did
    old_clients,  \* clients when the last callback was entered
    dups_open,    \* duplicate descriptors open after the last callback
    stdout_open,  \* the process's own standard output is open
    tty_proc      \* "running", or "crashed" once a NULL stream was written

vars == <<modules, globals, call, old_modules, old_globals, live,
          ipc_set, pc, i, reply, local, served, exchanged, cmd_len, io_log, running,
          lua_value, json_text, lua_result, pack_pc,
          main_pc, lua_state, updater, timer, main_ret, init_ret, first_error, binds, conf,
          start_ret, loop_entered, stop_flag, stops, timer_closes, deinits, exit_code,
          g_quiet, g_interactive, listener, clients, accepted, tty_call, old_clients,
          dups_open, stdout_open, tty_proc>>

registry_vars == <<modules, globals, call, old_modules, old_globals, live>>

map_vars == <<ipc_set, pc, i, reply, local, served, exchanged, cmd_len, io_log,
              running>>

pack_vars == <<lua_value, json_text, lua_result, pack_pc>>

life_vars == <<main_pc, lua_state, updater, timer, main_ret, init_ret, first_error, binds, conf,
               start_ret, loop_entered, stop_flag, stops, timer_closes, deinits, exit_code>>

tty_vars == <<g_quiet, g_interactive, listener, clients, accepted, tty_call, old_clients,
              dups_open, stdout_open, tty_proc>>

\* What the actions of one subsystem leave alone.
beside_registry == <<map_vars, pack_vars, life_vars, tty_vars>>

beside_map == <<registry_vars, pack_vars, life_vars, tty_vars>>

beside_pack == <<registry_vars, map_vars, life_vars, tty_vars>>

beside_life == <<registry_vars, map_vars, pack_vars, tty_vars>>

beside_tty == <<registry_vars, map_vars, pack_vars, life_vars>>

\* What engine_init and engine_deinit leave alone besides the lifecycle: they
\* write engine->modules.
beside_engine == <<globals, call, old_modules, old_globals, live,
                   map_vars, pack_vars, tty_vars>>

\* ------------------------------------------------------ Lua values
\* A Lua value: its lua_type, its text for strings, numbers and booleans, and for
\* a table its entries in the order lua_next enumerates them.
LuaString(s) == [tag |-> "string", s |-> s, kv |-> <<>>]

LuaNumber(n) == [tag |-> "number", s |-> ToString(n), kv |-> <<>>]

LuaBoolean(b) == [tag |-> "boolean", s |-> IF b THEN "true" ELSE "false", kv |-> <<>>]

LuaNil == [tag |-> "nil", s |-> "", kv |-> <<>>]

LuaFunction == [tag |-> "function", s |-> "", kv |-> <<>>]

LuaTable(kv) == [tag |-> "table", s |-> "", kv |-> kv]

\* ------------------------------------------------------ control channel
\* How a command ends: the status of engine_cmd and what is on top of the Lua
\* stack afterwards: nothing, something lua_tostring converts, something it does
\* not (a table, a boolean, nil). A failed call always leaves its error object.
CmdResults ==
    { [ret |-> "ok", top |-> "none"], [ret |-> "ok", top |-> "text"],
      [ret |-> "ok", top |-> "object"], [ret |-> "error", top |-> "text"],
      [ret |-> "error", top |-> "object"] }

\* nread as libuv hands it to the read callback: an error or end of stream,
\* nothing read, some bytes.
NreadValues == {-1, 0, 1}

\* dup(stream_fd) and fdopen(dup_fd, "w") in tty_read.
DupOutcomes == {"ok", "dup_fail", "fdopen_fail"}

\* message in tty_read: "" unless the stack is not empty, then lua_tostring of its
\* top, which is NULL for a value that is neither a string nor a number.
Message(res) ==
    CASE res.top = "none" -> ""
      [] res.top = "text" -> IF res.ret = "ok" THEN "value" ELSE "error message"
      [] OTHER            -> NULL

\* The three fprintf calls tty_read makes on a stream, as the non-empty texts
\* they write: the message when it is not NULL, a newline when the message is
\* not NULL or the mode is not quiet, the delimiter.
tty_print(message, quiet) ==
    LET delim == IF quiet THEN "" ELSE "> "
    IN  (IF message /= NULL /\ message /= "" THEN <<message>> ELSE <<>>)
        \o (IF message /= NULL \/ ~quiet THEN <<"\n">> ELSE <<>>)
        \o (IF delim /= "" THEN <<delim>> ELSE <<>>)

\* Mutant of fclose_out: the redirected stream is never closed.
fclose_out_never(out) == 0

\* fclose(out) at the end of tty_read for a remote stream: the number of
\* duplicate descriptors it closes.
fclose_out(out) == IF out = "dup" THEN 1 ELSE 0

\* Mutant of uv_close_stream: every connection is closed.
uv_close_all(open, stream) == open \ open

\* uv_close(stream, free): the connection leaves the open connections.
uv_close_stream(open, stream) == open \ {stream}

\* What one read callback does, for a remote stream or the process's own input.
tty_read(remote, nread, res, quiet, dup) ==
    LET out   == IF ~remote \/ dup = "dup_fail" THEN "stdout"
                 ELSE IF dup = "ok" THEN "dup" ELSE NULL
        exec  == nread > 0
        lines == tty_print(Message(res), quiet)
        quiet_return ==
            [closed |-> FALSE, executed |-> FALSE, out |-> "stdout", sent |-> <<>>,
             std |-> <<>>, std_to |-> "stdout", dup_opened |-> 0, dup_closed |-> 0,
             stdout_closed |-> FALSE, crashed |-> FALSE]
    IN  IF remote /\ nread <= 0
        THEN [quiet_return EXCEPT !.closed = TRUE]
        ELSE IF remote /\ out = NULL
        THEN [quiet_return EXCEPT !.executed = TRUE, !.out = NULL, !.dup_opened = 1,
                                  !.crashed = TRUE]
        ELSE [closed |-> FALSE,
              executed |-> exec,
              out |-> out,
              sent |-> IF remote /\ exec THEN lines ELSE <<>>,
              std |-> IF exec THEN lines ELSE <<>>,
              std_to |-> IF exec /\ res.ret /= "ok" THEN "stderr" ELSE "stdout",
              dup_opened |-> IF out = "dup" THEN 1 ELSE 0,
              dup_closed |-> IF remote THEN fclose_out(out) ELSE 0,
              stdout_closed |-> remote /\ out = "stdout",
              crashed |-> FALSE]

\* The record kept of the last callback.
TtyCall(op, stream, nread, res, dup, did, prompt) ==
    [op |-> op, stream |-> stream, nread |-> nread, res |-> res, dup |-> dup,
     did |-> did, prompt |-> prompt]

NoTtyCall ==
    TtyCall("none", STDIN_FILENO, 0, [ret |-> "ok", top |-> "none"], "ok",
            tty_read(FALSE, 0, [ret |-> "ok", top |-> "none"], FALSE, "ok"), "")

\* The subsystems a specification leaves alone stay as the constructor left them.
PackIdle ==
    /\ lua_value = LuaNil
    /\ json_text = <<>>
    /\ lua_result = LuaNil
    /\ pack_pc = "idle"

\* main has not called engine_init yet.
LifeIdle ==
    /\ main_pc = "engine_init"
    /\ lua_state = "NULL"
    /\ updater = "NULL"
    /\ timer = <<0, 0>>
    /\ main_ret = "kr_ok"
    /\ init_ret = "none"
    /\ first_error = "kr_ok"
    /\ binds = <<>>
    /\ conf = "none"
    /\ start_ret = "none"
    /\ loop_entered = FALSE
    /\ stop_flag = FALSE
    /\ stops = 0
    /\ timer_closes = 0
    /\ deinits = 0
    /\ exit_code = "none"

\* The globals of main.c as they are defined, no channel set up.
TtyIdle ==
    /\ g_quiet = FALSE
    /\ g_interactive = TRUE
    /\ listener = "none"
    /\ clients = {}
    /\ accepted = 0
    /\ tty_call = NoTtyCall
    /\ old_clients = {}
    /\ dups_open = 0
    /\ stdout_open = TRUE
    /\ tty_proc = "running"

\* ------------------------------------------------------ array helpers
At(arr, k) == arr[k + 1]

\* lib/generic/array.h array_push: the value goes to the end.
array_push(arr, v) == Append(arr, v)

\* lib/generic/array.h array_del: entry k is removed, later entries close the gap.
array_del(arr, k) ==
    IF k < Len(arr)
    THEN [j \in 1..(Len(arr) - 1) |-> IF j - 1 < k THEN arr[j] ELSE arr[j + 1]]
    ELSE arr

\* memmove(&arr[dst], &arr[src], cnt elements) on an array.
memmove(arr, dst, src, cnt) ==
    [j \in 1..Len(arr) |->
        IF dst <= j - 1 /\ j - 1 < dst + cnt THEN At(arr, src + (j - 1 - dst)) ELSE arr[j]]

\* ------------------------------------------------------ Lua globals
lua_setglobal_nil(g, name) == { p \in g : p[1] /= name }

lua_setglobal(g, name, tbl) == lua_setglobal_nil(g, name) \cup {<<name, tbl>>}

\* The table register_properties fills: one closure per entry point.
EntryPoints(module) ==
    (IF module.config THEN {"config"} ELSE {}) \cup (IF module.props THEN {"props"} ELSE {})

\* ------------------------------------------------------ module registry
kr_ok == "kr_ok"

\* Mutant of module_find: the comparison is inverted, the first module with
\* another name is taken.
module_find_differs(mod_list, name) ==
    LET hits == { k \in 0..(Len(mod_list) - 1) : At(mod_list, k).name /= name }
    IN  IF hits = {} THEN Len(mod_list)
        ELSE CHOOSE k \in hits : \A h \in hits : k <= h

\* Mutant of module_find: found starts at 0 instead of the length.
module_find_zero(mod_list, name) ==
    LET hits == { k \in 0..(Len(mod_list) - 1) : At(mod_list, k).name = name }
    IN  IF hits = {} THEN 0
        ELSE CHOOSE k \in hits : \A h \in hits : k <= h

\* Index of the first module called name, or the length when there is none.
module_find(mod_list, name) ==
    LET hits == { k \in 0..(Len(mod_list) - 1) : At(mod_list, k).name = name }
    IN  IF hits = {} THEN Len(mod_list)
        ELSE CHOOSE k \in hits : \A h \in hits : k <= h

\* The struct kr_module that a successful load of name fills in.
LoadedModule(name) ==
    [name |-> name, config |-> Catalogue(name).config, props |-> Catalogue(name).props]

\* What strdup(module->name) returns in engine_unload: a copy, or NULL.
StrdupOutcomes == {"ok", NULL}

\* Mutant of engine_unload: the global is left in place.
engine_unload_keep_global(g, module, name) == g

\* engine_unload: the module is unloaded and, when its name could be duplicated
\* before the unload, the global named after it is set to nil.
engine_unload(g, module, name) ==
    IF name /= NULL THEN lua_setglobal_nil(g, module.name) ELSE g

\* Mutant of engine_unregister: the module is unloaded but stays in the list.
engine_unregister_leak(mod_list, g, name, name_dup) ==
    LET found == module_find(mod_list, name)
    IN  IF found < Len(mod_list)
        THEN [modules |-> mod_list,
              globals |-> engine_unload(g, At(mod_list, found), name_dup),
              ret     |-> kr_ok]
        ELSE [modules |-> mod_list, globals |-> g, ret |-> "ENOENT"]

\* Mutant of engine_unregister: the last entry is dropped instead of entry found.
engine_unregister_pop(mod_list, g, name, name_dup) ==
    LET found == module_find(mod_list, name)
    IN  IF found < Len(mod_list)
        THEN [modules |-> array_del(mod_list, Len(mod_list) - 1),
              globals |-> engine_unload(g, At(mod_list, found), name_dup),
              ret     |-> kr_ok]
        ELSE [modules |-> mod_list, globals |-> g, ret |-> "ENOENT"]

\* engine_unregister on (modules, globals).
engine_unregister(mod_list, g, name, name_dup) ==
    LET found == module_find(mod_list, name)
    IN  IF found < Len(mod_list)
        THEN [modules |-> array_del(mod_list, found),
              globals |-> engine_unload(g, At(mod_list, found), name_dup),
              ret     |-> kr_ok]
        ELSE [modules |-> mod_list, globals |-> g, ret |-> "ENOENT"]

\* register_properties: the global named after the module is set to the table of
\* its entry points; a failing modules_register hook is popped and ignored.
register_properties(g, module, hook) ==
    lua_setglobal(g, module.name, EntryPoints(module))

\* Mutant of RefMissing: > instead of >=.
RefMissing_gt(ref_pos, len) == ref_pos > len

\* The check of the reference position (engine_register, "if (ref_pos >= len)").
RefMissing(ref_pos, len) == ref_pos >= len

\* Mutant of Emplacement: ">" inserts at the target instead of after it.
Emplacement_at_target(precedence, ref_pos, len) ==
    LET after  == IF precedence = ">" /\ ref_pos + 1 < len THEN ref_pos ELSE len
    IN  IF precedence = "<" THEN ref_pos ELSE after

\* The emplacement the precedence operator selects, len being the length after
\* the push.
Emplacement(precedence, ref_pos, len) ==
    LET after  == IF precedence = ">" /\ ref_pos + 1 < len THEN ref_pos + 1 ELSE len
    IN  IF precedence = "<" THEN ref_pos ELSE after

\* Mutant of Splice: the module is stored without moving the tail.
Splice_overwrite(arr, emplacement, module) ==
    IF emplacement + 1 < Len(arr)
    THEN [arr EXCEPT ![emplacement + 1] = module]
    ELSE arr

\* "Move the tail if it has some elements": arr already holds module at the end.
Splice(arr, emplacement, module) ==
    IF emplacement + 1 < Len(arr)
    THEN [memmove(arr, emplacement + 1, emplacement, Len(arr) - (emplacement + 1))
            EXCEPT ![emplacement + 1] = module]
    ELSE arr

\* Result of kr_module_load followed, on ENOENT, by ffimodule_register_lua.
LoadRet(load) ==
    CASE load = "native"      -> kr_ok
      [] load = "lua"         -> kr_ok
      [] load = "push_fail"   -> kr_ok
      [] load = "native_fail" -> "EINIT"
      [] load = "lua_fail"    -> "ENOENT"
      [] OTHER                -> "ENOMEM"

\* engine_register on (modules, globals). stage tells how far the call got;
\* name_dup is how strdup goes when the earlier module of that name is unloaded,
\* push_dup how it goes when the new module is unloaded after a failed push.
engine_register(mod_list0, g0, name, precedence, ref, load, hook, name_dup, push_dup) ==
    IF name = NULL
    THEN [modules |-> mod_list0, globals |-> g0, ret |-> "EINVAL", stage |-> "args"]
    ELSE
    LET u        == engine_unregister(mod_list0, g0, name, name_dup)
        mod_list == u.modules
        has_ref  == precedence /= NULL /\ ref /= NULL
        ref_pos  == IF has_ref THEN module_find(mod_list, ref) ELSE Len(mod_list)
        module   == LoadedModule(name)
        pushed   == array_push(mod_list, module)
        placed   == IF precedence /= NULL
                    THEN Splice(pushed, Emplacement(precedence, ref_pos, Len(pushed)), module)
                    ELSE pushed
    IN  IF has_ref /\ RefMissing(ref_pos, Len(mod_list))
        THEN [modules |-> mod_list, globals |-> u.globals, ret |-> "EIDRM", stage |-> "ref"]
        ELSE IF load = "malloc_fail"
        THEN [modules |-> mod_list, globals |-> u.globals, ret |-> "ENOMEM", stage |-> "load"]
        ELSE IF LoadRet(load) /= kr_ok
        THEN [modules |-> mod_list, globals |-> u.globals, ret |-> LoadRet(load), stage |-> "load"]
        ELSE IF load = "push_fail"
        THEN [modules |-> mod_list, globals |-> engine_unload(u.globals, module, push_dup),
              ret |-> "ENOMEM", stage |-> "push"]
        ELSE IF module.props \/ module.config
        THEN [modules |-> placed, globals |-> register_properties(u.globals, module, hook),
              ret |-> kr_ok, stage |-> "props"]
        ELSE [modules |-> placed, globals |-> u.globals, ret |-> kr_ok, stage |-> "done"]

\* The record kept of one API call: its arguments, what the environment did, its
\* result.
CallRecord(op, name, precedence, ref, load, hook, name_dup, ret) ==
    [op |-> op, name |-> name, precedence |-> precedence, ref |-> ref,
     load |-> load, hook |-> hook, name_dup |-> name_dup, ret |-> ret]

\* The reference arguments a caller passes: callers split "name precedence ref" on
\* blanks, so there is no reference without a precedence.
RefArgs(precedence) == IF precedence = NULL THEN {NULL} ELSE Names \cup {NULL}

\* The modules_register hook runs only for a loaded module that has entry points.
\* strdup runs in the unload of a module that is in the list.
StrdupsRun(mod_list, name) ==
    IF module_find(mod_list, name) < Len(mod_list) THEN StrdupOutcomes ELSE {"ok"}

\* strdup runs in the unload of the module whose push failed.
PushStrdupsRun(name, load) ==
    IF name /= NULL /\ load = "push_fail" THEN StrdupOutcomes ELSE {"ok"}

HooksRun(name, load) ==
    IF name /= NULL /\ load \in {"native", "lua"}
       /\ (Catalogue(name).config \/ Catalogue(name).props)
    THEN HookOutcomes ELSE {"hook_ok"}

\* engine_register(engine, name, precedence, ref) called from the idle daemon.
EngineRegister ==
    /\ pc = "idle"
    /\ call.op = "none"
    /\ \E name \in Names \cup {NULL}, precedence \in Precedences, load \in LoadOutcomes :
       \E ref \in RefArgs(precedence), hook \in HooksRun(name, load),
          name_dup \in StrdupsRun(modules, name), push_dup \in PushStrdupsRun(name, load) :
        LET r == engine_register(modules, globals, name, precedence, ref, load, hook,
                                 name_dup, push_dup)
        IN  /\ modules' = r.modules
            /\ globals' = r.globals
            /\ call' = CallRecord("register", name, precedence, ref, load, hook,
                                  name_dup, r.ret)
            /\ live' = IF r.ret = kr_ok THEN live \cup {name} ELSE live \ {name}
    /\ old_modules' = modules
    /\ old_globals' = globals
    /\ UNCHANGED beside_registry

\* engine_unregister(engine, name) called from the idle daemon.
EngineUnregister ==
    /\ pc = "idle"
    /\ call.op = "none"
    /\ \E name \in Names : \E name_dup \in StrdupsRun(modules, name) :
        LET r == engine_unregister(modules, globals, name, name_dup)
        IN  /\ modules' = r.modules
            /\ globals' = r.globals
            /\ call' = CallRecord("unregister", name, NULL, NULL, "none", "hook_ok",
                                  name_dup, r.ret)
            /\ live' = IF r.ret = kr_ok THEN live \ {name} ELSE live
    /\ old_modules' = modules
    /\ old_globals' = globals
    /\ UNCHANGED beside_registry

NoCall == CallRecord("none", NULL, NULL, NULL, "none", "hook_ok", "ok", kr_ok)

\* The caller has taken the result of the call; the record of the call is dropped.
CallReturned ==
    /\ call.op /= "none"
    /\ call' = NoCall
    /\ old_modules' = <<>>
    /\ old_globals' = {}
    /\ UNCHANGED <<modules, globals, live>>
    /\ UNCHANGED beside_registry

\* The sibling pipes the engine holds once the workers are forked.
IpcSets == { [k \in 1..n |-> k + 2] : n \in 0..MaxPipes }

RegistryIdle ==
    /\ modules = <<>>
    /\ globals = {}
    /\ call = NoCall
    /\ old_modules = <<>>
    /\ old_globals = {}
    /\ live = {}

\* No broadcast has run on an engine with the pipes pipes.
MapIdle(pipes) ==
    /\ ipc_set = pipes
    /\ pc = "idle"
    /\ i = 0
    /\ reply = <<>>
    /\ local = "nil"
    /\ served = <<>>
    /\ exchanged = <<>>
    /\ cmd_len = 0
    /\ io_log = <<>>
    /\ running = "none"

Init ==
    /\ RegistryIdle
    /\ MapIdle(<<>>)
    /\ PackIdle
    /\ LifeIdle
    /\ TtyIdle

Next ==
    \/ EngineRegister
    \/ EngineUnregister
    \/ CallReturned

Spec == Init /\ [][Next]_vars

\* ------------------------------------------------------ worker broadcast
\* What engine_cmd(L, cmd, true) leaves for the leader after lua_settop(ntop + 1):
\* the first result, the error message, or nil when the command yields nothing.
LocalResults == {"value", "error", "nil"}

\* The reply text of a sibling whose command evaluated to boolean false
\* (engine_ipc sends l_tojson of the result).
JsonFalse == "false"

\* Reply texts a sibling may send.
Replies == { "r" \o ToString(k) : k \in 1..NumReplies } \cup {JsonFalse}

\* json_decode(rbuf) returns a node for JSON text and NULL otherwise; the literal
\* false is JSON, the other reply texts stand for either kind. No reply text is
\* held when the exchange ends before the body is read.
json_decodes(io, text) ==
    CASE io = "decoded" -> text \in Replies
      [] io = "raw"     -> text \in Replies \ {JsonFalse}
      [] OTHER          -> text = ""

\* How the exchange with one sibling ends, in the order l_map tests it.
SiblingOutcomes ==
    {"write_len_fail", "write_cmd_fail", "read_len_fail", "malloc_fail",
     "read_body_fail", "decoded", "raw"}

\* Commands handed to map(): Lua expressions of different lengths.
Commands == {"x", "f()"}

\* strlen of a C string.
strlen(str) == Len(str)

\* The lengths a reply length prefix may announce.
ReplyLengths == { strlen(text) : text \in Replies }

\* One pipe operation of l_map: a write or a read on fd of count bytes, part
\* telling whether they are a length prefix or a body, value being the length a
\* prefix carries, ok whether the call returned count; or the lua_rawseti that
\* records the sibling's slot.
IoEvent(fd, op, part, count, value, ok) ==
    [fd |-> fd, op |-> op, part |-> part, count |-> count, value |-> value, ok |-> ok]

\* Mutant of SiblingIo: the reply length is read although the command write failed.
SiblingIo_reads_after_failed_write(fd, n, io, rlen) ==
    LET wl(ok) == IoEvent(fd, "write", "length", sizeof_len, n, ok)
        wc(ok) == IoEvent(fd, "write", "body", n, 0, ok)
        rl(ok) == IoEvent(fd, "read", "length", sizeof_len, IF ok THEN rlen ELSE 0, ok)
        rb(ok) == IoEvent(fd, "read", "body", rlen, 0, ok)
        slot   == IoEvent(fd, "slot", "none", 0, 0, TRUE)
    IN  CASE io = "write_len_fail" -> <<wl(FALSE), slot>>
          [] io = "write_cmd_fail" -> <<wl(TRUE), wc(FALSE), rl(FALSE), slot>>
          [] io = "read_len_fail"  -> <<wl(TRUE), wc(TRUE), rl(FALSE), slot>>
          [] io = "malloc_fail"    -> <<wl(TRUE), wc(TRUE), rl(TRUE), slot>>
          [] io = "read_body_fail" -> <<wl(TRUE), wc(TRUE), rl(TRUE), rb(FALSE), slot>>
          [] OTHER                 -> <<wl(TRUE), wc(TRUE), rl(TRUE), rb(TRUE), slot>>

\* The pipe operations of one iteration of the loop of l_map, for a command of n
\* bytes and a reply announced as rlen bytes: each expr_checked that fails, and
\* the failed read of the reply length, record the slot and end the iteration.
SiblingIo(fd, n, io, rlen) ==
    LET wl(ok) == IoEvent(fd, "write", "length", sizeof_len, n, ok)
        wc(ok) == IoEvent(fd, "write", "body", n, 0, ok)
        rl(ok) == IoEvent(fd, "read", "length", sizeof_len, IF ok THEN rlen ELSE 0, ok)
        rb(ok) == IoEvent(fd, "read", "body", rlen, 0, ok)
        slot   == IoEvent(fd, "slot", "none", 0, 0, TRUE)
    IN  CASE io = "write_len_fail" -> <<wl(FALSE), slot>>
          [] io = "write_cmd_fail" -> <<wl(TRUE), wc(FALSE), slot>>
          [] io = "read_len_fail"  -> <<wl(TRUE), wc(TRUE), rl(FALSE), slot>>
          [] io = "malloc_fail"    -> <<wl(TRUE), wc(TRUE), rl(TRUE), slot>>
          [] io = "read_body_fail" -> <<wl(TRUE), wc(TRUE), rl(TRUE), rb(FALSE), slot>>
          [] OTHER                 -> <<wl(TRUE), wc(TRUE), rl(TRUE), rb(TRUE), slot>>

\* The reply length the leader reads from the pipe: the length of the text when
\* the body was read in full, any announced length when the body was not, and
\* none when the length prefix was not read.
ReadsLength(io, text, rlen) ==
    CASE io \in {"decoded", "raw"}                -> rlen = strlen(text)
      [] io \in {"malloc_fail", "read_body_fail"} -> rlen \in ReplyLengths
      [] OTHER                                    -> rlen = 0

\* lua_rawlen of a table: the border n, with keys 1..n present and n + 1 absent.
lua_rawlen(t) ==
    CHOOSE n \in 0..Cardinality(DOMAIN t) :
        /\ \A k \in 1..n : k \in DOMAIN t
        /\ (n + 1) \notin DOMAIN t

\* lua_rawseti(L, table, n) with value v on the stack: storing nil removes the key.
lua_rawseti(t, n, v) ==
    IF v = "nil"
    THEN [k \in (DOMAIN t) \ {n} |-> t[k]]
    ELSE [k \in (DOMAIN t) \cup {n} |-> IF k = n THEN v ELSE t[k]]

\* The value l_map pushes for one sibling.
SlotValue(io, text) ==
    CASE io = "decoded" /\ text = JsonFalse -> "false"
      [] io = "decoded" -> "json:" \o text
      [] io = "raw"     -> "raw:" \o text
      [] OTHER          -> "false"

\* expr_checked and the tail of the loop body: append at lua_rawlen + 1.
AppendSlot(t, v) == lua_rawseti(t, lua_rawlen(t) + 1, v)

\* The callbacks uv_run dispatches on the event loop thread.
Callbacks == {"tty_accept", "tty_read", "update_state"}

\* Mutant of uv_run_callback: a callback is dispatched whatever the thread is in.
uv_run_callback_any_time ==
    /\ \E cb \in Callbacks : running' = cb
    /\ UNCHANGED <<ipc_set, pc, i, reply, local, served, exchanged, cmd_len, io_log>>
    /\ UNCHANGED beside_map

\* uv_run takes the next ready handle and calls its callback: this happens on the
\* one event loop thread, between callbacks, never inside a call of l_map.
uv_run_callback ==
    /\ running = "none"
    /\ pc \in {"idle", "returned"}
    /\ \E cb \in Callbacks : running' = cb
    /\ UNCHANGED <<ipc_set, pc, i, reply, local, served, exchanged, cmd_len, io_log>>
    /\ UNCHANGED beside_map

\* The callback returns to uv_run; a tty_read that evaluates map() returns after
\* l_map has.
callback_returns ==
    /\ running /= "none"
    /\ pc \in {"idle", "returned"}
    /\ running' = "none"
    /\ UNCHANGED <<ipc_set, pc, i, reply, local, served, exchanged, cmd_len, io_log>>
    /\ UNCHANGED beside_map

\* l_map up to the loop: the length of the command, new table, leader
\* evaluation, result stored at index 1. map() is evaluated by a command read
\* from the control channel, or by the configuration before the loop runs.
l_map_leader ==
    /\ pc \in {"idle", "returned"}
    /\ running \in {"none", "tty_read"}
    /\ \E cmd \in Commands : cmd_len' = strlen(cmd)
    /\ io_log' = <<>>
    /\ \E res \in LocalResults :
        /\ local' = res
        /\ reply' = lua_rawseti(<<>>, 1, res)
    /\ i' = 0
    /\ served' = <<>>
    /\ exchanged' = <<>>
    /\ pc' = "siblings"
    /\ UNCHANGED <<ipc_set, running>>
    /\ UNCHANGED beside_map

\* One iteration of the loop over ipc_set.
l_map_sibling ==
    /\ pc = "siblings"
    /\ i < Len(ipc_set)
    /\ \E io \in SiblingOutcomes, text \in Replies \cup {""}, rlen \in ReplyLengths \cup {0} :
        /\ json_decodes(io, text)
        /\ ReadsLength(io, text, rlen)
        /\ reply' = AppendSlot(reply, SlotValue(io, text))
        /\ served' = Append(served, SlotValue(io, text))
        /\ exchanged' = Append(exchanged, [io |-> io, text |-> text])
        /\ io_log' = io_log \o SiblingIo(At(ipc_set, i), cmd_len, io, rlen)
    /\ i' = i + 1
    /\ UNCHANGED <<ipc_set, pc, local, cmd_len, running>>
    /\ UNCHANGED beside_map

\* One iteration of the loop in which the sibling takes the request and sends
\* nothing back: read(fd, &rlen, sizeof(rlen)) does not return, and l_map has no
\* timer or signal that would end it.
l_map_blocks ==
    /\ pc = "siblings"
    /\ i < Len(ipc_set)
    /\ pc' = "blocked"
    /\ io_log' = io_log \o SubSeq(SiblingIo(At(ipc_set, i), cmd_len, "read_len_fail", 0), 1, 2)
    /\ UNCHANGED <<ipc_set, i, reply, local, served, exchanged, cmd_len, running>>
    /\ UNCHANGED beside_map

\* l_map as a function of the leader's result and of how each exchange ends: the
\* table it returns.
RECURSIVE l_map_loop(_, _)
l_map_loop(t, exch) ==
    IF exch = <<>>
    THEN t
    ELSE l_map_loop(AppendSlot(t, SlotValue(Head(exch).io, Head(exch).text)), Tail(exch))

l_map(res, exch) == l_map_loop(lua_rawseti(<<>>, 1, res), exch)

\* The loop is over: l_map returns the table.
l_map_return ==
    /\ pc = "siblings"
    /\ ~(i < Len(ipc_set))
    /\ pc' = "returned"
    /\ UNCHANGED <<ipc_set, i, reply, local, served, exchanged, cmd_len, io_log, running>>
    /\ UNCHANGED beside_map

MapInit ==
    /\ RegistryIdle
    /\ \E pipes \in IpcSets : MapIdle(pipes)
    /\ PackIdle
    /\ LifeIdle
    /\ TtyIdle

MapNext ==
    \/ uv_run_callback
    \/ callback_returns
    \/ l_map_leader
    \/ l_map_sibling
    \/ l_map_blocks
    \/ l_map_return

MapSpec == MapInit /\ [][MapNext]_vars

\* The event loop thread keeps executing the loop of l_map: an iteration whose
\* pipe calls return is completed, and after the last one l_map returns.
MapFairSpec == MapSpec /\ WF_vars(l_map_sibling) /\ WF_vars(l_map_return)

\* ------------------------------------------------------ Lua/JSON bridge
\* A JsonNode of ccan/json: its tag, its key when it is a member of an object,
\* its text for strings, numbers and booleans, and its children in order.
JsonNode(tag, s) == [tag |-> tag, key |-> NULL, s |-> s, kids |-> <<>>]

json_mkstring(s) == JsonNode("JSON_STRING", s)

json_mknumber(s) == JsonNode("JSON_NUMBER", s)

json_mkbool(s) == JsonNode("JSON_BOOL", s)

json_mknull == JsonNode("JSON_NULL", "")

json_mkarray == JsonNode("JSON_ARRAY", "")

json_mkobject == JsonNode("JSON_OBJECT", "")

\* The JsonNode pointer that is NULL: no node made yet, or json_decode failed.
NoNode == JsonNode("NULL", "")

\* lua_next raised "invalid key to 'next'": the Lua error leaves l_pack_elem.
LuaError == JsonNode("lua_error", "")

json_append_element(array, val) == [array EXCEPT !.kids = Append(@, val)]

json_append_member(object, key, val) ==
    [object EXCEPT !.kids = Append(@, [val EXCEPT !.key = key])]

\* l_pack_elem: strings, numbers and booleans map directly, a table is walked
\* with lua_next, every other type becomes null. The node of a table is made at
\* the first entry lua_next yields: an array when that key is a number, an
\* object otherwise; every later entry follows the tag of the node. In an object
\* lua_tostring turns a number key on the stack into a string, and the lua_next
\* that follows raises an error.
RECURSIVE l_pack_elem(_), l_pack_table(_, _)
l_pack_table(kv, node) ==
    IF kv = <<>>
    THEN IF node = NoNode THEN json_mkobject ELSE node
    ELSE LET key == Head(kv).key
             made == IF node /= NoNode THEN node
                     ELSE IF key.tag = "number" THEN json_mkarray ELSE json_mkobject
             is_array == made.tag = "JSON_ARRAY"
             val == l_pack_elem(Head(kv).val)
         IN  IF val = LuaError THEN LuaError
             ELSE IF is_array THEN l_pack_table(Tail(kv), json_append_element(made, val))
             ELSE IF key.tag /= "string" THEN LuaError
             ELSE l_pack_table(Tail(kv), json_append_member(made, key.s, val))

l_pack_elem(v) ==
    CASE v.tag = "string"  -> json_mkstring(v.s)
      [] v.tag = "number"  -> json_mknumber(v.s)
      [] v.tag = "boolean" -> json_mkbool(v.s)
      [] v.tag = "table"   -> l_pack_table(v.kv, NoNode)
      [] OTHER             -> json_mknull

\* One token of a JSON text.
Tok(t, s) == [t |-> t, s |-> s]

\* json_encode of ccan/json: the text of a node, token by token.
RECURSIVE json_encode(_), emit_kids(_, _)
emit_kids(kids, first) ==
    IF kids = <<>>
    THEN <<>>
    ELSE (IF first THEN <<>> ELSE <<Tok(",", "")>>)
         \o (IF Head(kids).key /= NULL
             THEN <<Tok("string", Head(kids).key), Tok(":", "")>>
             ELSE <<>>)
         \o json_encode(Head(kids))
         \o emit_kids(Tail(kids), FALSE)

json_encode(node) ==
    CASE node.tag = "JSON_STRING" -> <<Tok("string", node.s)>>
      [] node.tag = "JSON_NUMBER" -> <<Tok("number", node.s)>>
      [] node.tag = "JSON_BOOL"   -> <<Tok("literal", node.s)>>
      [] node.tag = "JSON_ARRAY"  ->
            <<Tok("[", "")>> \o emit_kids(node.kids, TRUE) \o <<Tok("]", "")>>
      [] node.tag = "JSON_OBJECT" ->
            <<Tok("{", "")>> \o emit_kids(node.kids, TRUE) \o <<Tok("}", "")>>
      [] OTHER                    -> <<Tok("literal", "null")>>

\* json_decode of ccan/json: the node of a JSON text, NULL when it is not one.
ParseFailed == [node |-> NoNode, rest |-> <<>>]

RECURSIVE parse_value(_), parse_member(_, _)
parse_member(toks, node) ==
    LET keyed == node.tag = "JSON_OBJECT"
        close == IF keyed THEN "}" ELSE "]"
        okkey == ~keyed \/ (Len(toks) >= 2 /\ toks[1].t = "string" /\ toks[2].t = ":")
        body  == IF keyed THEN SubSeq(toks, 3, Len(toks)) ELSE toks
        v     == parse_value(body)
        added == IF keyed
                 THEN json_append_member(node, toks[1].s, v.node)
                 ELSE json_append_element(node, v.node)
    IN  IF ~okkey THEN ParseFailed
        ELSE IF v.node = NoNode \/ v.rest = <<>> THEN ParseFailed
        ELSE IF Head(v.rest).t = "," THEN parse_member(Tail(v.rest), added)
        ELSE IF Head(v.rest).t = close THEN [node |-> added, rest |-> Tail(v.rest)]
        ELSE ParseFailed

parse_value(toks) ==
    IF toks = <<>>
    THEN ParseFailed
    ELSE LET h == Head(toks)
             opened == IF h.t = "[" THEN json_mkarray ELSE json_mkobject
             close  == IF h.t = "[" THEN "]" ELSE "}"
         IN  CASE h.t = "string"  -> [node |-> json_mkstring(h.s), rest |-> Tail(toks)]
               [] h.t = "number"  -> [node |-> json_mknumber(h.s), rest |-> Tail(toks)]
               [] h.t = "literal" ->
                     [node |-> IF h.s = "null" THEN json_mknull ELSE json_mkbool(h.s),
                      rest |-> Tail(toks)]
               [] h.t \in {"[", "{"} ->
                     IF Len(toks) >= 2 /\ toks[2].t = close
                     THEN [node |-> opened, rest |-> SubSeq(toks, 3, Len(toks))]
                     ELSE parse_member(Tail(toks), opened)
               [] OTHER -> ParseFailed

json_decode(toks) ==
    LET r == parse_value(toks)
    IN  IF r.node /= NoNode /\ r.rest = <<>> THEN r.node ELSE NoNode

\* A Lua table under construction: its entries, in the order they were stored.
HasKey(kv, key) == \E k \in 1..Len(kv) : kv[k].key = key

\* lua_rawlen of such a table: the border of its number keys.
lua_objlen(kv) ==
    CHOOSE n \in 0..Len(kv) :
        /\ \A k \in 1..n : HasKey(kv, LuaNumber(k))
        /\ ~HasKey(kv, LuaNumber(n + 1))

\* lua_setfield / lua_rawseti on such a table: a stored key takes the new value.
lua_settable(kv, key, val) ==
    IF HasKey(kv, key)
    THEN [k \in 1..Len(kv) |-> IF kv[k].key = key THEN [key |-> key, val |-> val] ELSE kv[k]]
    ELSE Append(kv, [key |-> key, val |-> val])

\* Mutant of l_unpack_key: the key of an object member is ignored, every child
\* is appended at lua_rawlen + 1.
l_unpack_key_append(node, kv) == LuaNumber(lua_objlen(kv) + 1)

\* Where l_unpack_json stores a child: under its key when it has one
\* (lua_setfield), else at lua_rawlen + 1 (lua_rawseti).
l_unpack_key(node, kv) ==
    IF node.key /= NULL THEN LuaString(node.key) ELSE LuaNumber(lua_objlen(kv) + 1)

\* l_unpack_json: a string, number or boolean is pushed as it is; anything else
\* becomes a new table filled from the children, objects and arrays unpacked
\* recursively, children of any other tag skipped.
RECURSIVE l_unpack_json(_), l_unpack_children(_, _)
l_unpack_children(kids, kv) ==
    IF kids = <<>>
    THEN kv
    ELSE LET node == Head(kids)
         IN  IF node.tag \notin {"JSON_OBJECT", "JSON_ARRAY", "JSON_STRING",
                                 "JSON_NUMBER", "JSON_BOOL"}
             THEN l_unpack_children(Tail(kids), kv)
             ELSE l_unpack_children(Tail(kids),
                      lua_settable(kv, l_unpack_key(node, kv), l_unpack_json(node)))

l_unpack_json(table) ==
    CASE table.tag = "JSON_STRING" -> [tag |-> "string", s |-> table.s, kv |-> <<>>]
      [] table.tag = "JSON_NUMBER" -> [tag |-> "number", s |-> table.s, kv |-> <<>>]
      [] table.tag = "JSON_BOOL"   -> [tag |-> "boolean", s |-> table.s, kv |-> <<>>]
      [] OTHER                     -> LuaTable(l_unpack_children(table.kids, <<>>))

\* The values and keys the marshalling is exercised on.
PodValues == {LuaString("a"), LuaNumber(3), LuaBoolean(TRUE), LuaBoolean(FALSE)}

TableKeys == { LuaNumber(k) : k \in 1..MaxIndex } \cup {LuaString("ok"), LuaString("count")}

\* lua_next of a table walks the array part in index order, then the hash part:
\* the keys 1..n up to the border come first and in order, the rest in any order.
LuaNextOrder(kv) == \A k \in 1..lua_objlen(kv) : kv[k].key = LuaNumber(k)

Tables ==
    { kv \in UNION { [1..n -> [key : TableKeys, val : PodValues]] : n \in 0..MaxEntries } :
        /\ \A a, b \in 1..Len(kv) : a /= b => kv[a].key /= kv[b].key
        /\ LuaNextOrder(kv) }

LuaValues == PodValues \cup {LuaNil, LuaFunction} \cup { LuaTable(kv) : kv \in Tables }

\* l_tojson: l_pack_json of the value on top of the stack.
l_tojson ==
    /\ pack_pc = "value"
    /\ LET root == l_pack_elem(lua_value)
       IN  IF root = LuaError
           THEN /\ json_text' = <<>>
                /\ pack_pc' = "error"
           ELSE /\ json_text' = json_encode(root)
                /\ pack_pc' = "packed"
    /\ UNCHANGED <<lua_value, lua_result>>
    /\ UNCHANGED beside_pack

\* The reader's side in l_map: json_decode of the text, l_unpack_json of the node,
\* the text itself when it does not decode.
l_map_unpack ==
    /\ pack_pc = "packed"
    /\ LET root_node == json_decode(json_text)
       IN  lua_result' = IF root_node /= NoNode
                         THEN l_unpack_json(root_node)
                         ELSE LuaString("rbuf")
    /\ pack_pc' = "unpacked"
    /\ UNCHANGED <<lua_value, json_text>>
    /\ UNCHANGED beside_pack

PackInit ==
    /\ RegistryIdle
    /\ MapIdle(<<>>)
    /\ lua_value \in LuaValues
    /\ json_text = <<>>
    /\ lua_result = LuaNil
    /\ pack_pc = "value"
    /\ LifeIdle
    /\ TtyIdle

PackNext ==
    \/ l_tojson
    \/ l_map_unpack

PackSpec == PackInit /\ [][PackNext]_vars

\* ------------------------------------------------------ engine lifecycle
\* What luaL_newstate leaves init_state to return.
InitStateOutcomes == {kr_ok, "ENOMEM"}

\* What init_resolver returns: success, no memory for the OPT RR, or the -1 of an
\* array_push that could not grow the backends.
InitResolverOutcomes == {kr_ok, "ENOMEM", "-1"}

\* lua_close under the test of engine_deinit: if (engine->L) lua_close(engine->L).
\* engine->L keeps its value afterwards.
lua_close(state) == IF state = "NULL" THEN "NULL" ELSE "closed"

\* How the loads of the four built-in modules may go.
BuiltInLoads == [1..Len(BuiltIns) -> LoadOutcomes]

\* init_resolver on the module list mod_list: without memory for the OPT RR it
\* returns before the modules; otherwise the four engine_register calls are made
\* one after another (through[k] is the list after the first k of them), their
\* results are dropped, and the result is that of the array_push to the backends.
init_resolver(mod_list, resolver_ret, loads) ==
    LET through[k \in 0..Len(BuiltIns)] ==
            IF k = 0 THEN mod_list
            ELSE CHOOSE after \in
                    { engine_register(before, {}, BuiltIns[k], NULL, NULL, loads[k],
                                      "hook_ok", "ok", "ok").modules :
                          before \in {through[k - 1]} } : TRUE
    IN  IF resolver_ret = "ENOMEM"
        THEN [modules |-> mod_list, ret |-> resolver_ret]
        ELSE [modules |-> through[Len(BuiltIns)], ret |-> resolver_ret]

\* engine_deinit on the module list: every module is unloaded and the array is
\* cleared.
engine_deinit(mod_list) == <<>>

\* engine_init: init_state, then init_resolver. A failed init_state calls
\* engine_deinit and falls through to init_resolver; a failed init_resolver calls
\* engine_deinit and returns its error; the value returned is init_resolver's.
engine_init(state_ret, resolver_ret, loads) ==
    LET state == IF state_ret = kr_ok THEN "open" ELSE "NULL"
        torn  == IF state_ret /= kr_ok THEN 1 ELSE 0
        res   == init_resolver(<<>>, resolver_ret, loads)
    IN  IF res.ret /= kr_ok
        THEN [L |-> lua_close(state), ret |-> res.ret, deinits |-> torn + 1,
              modules |-> engine_deinit(res.modules)]
        ELSE [L |-> state, ret |-> res.ret, deinits |-> torn, modules |-> res.modules]

\* The scripts engine_loadconf runs, each of which may fail, and the
\* configuration path: "-", a file that exists, a file that does not.
Configs ==
    [paths : {"ok", "fail"}, sandbox : {"ok", "fail"},
     path : {"-", "present", "absent"}, file : {"ok", "fail"}, defaults : {"ok", "fail"}]

\* The status of a chunk that was loaded and called.
l_dobytecode(outcome) == IF outcome = "ok" THEN kr_ok ELSE "LUA_ERRRUN"

\* Mutant of engine_loadconf: the defaults are loaded whatever the configuration
\* file returned, and their status is the result.
engine_loadconf_defaults_always(c) ==
    IF l_dobytecode(c.sandbox) /= kr_ok THEN "ENOEXEC"
    ELSE IF c.path = "-" THEN l_dobytecode(c.paths)
    ELSE l_dobytecode(c.defaults)

\* engine_loadconf: the package path, the sandbox, the configuration file when it
\* exists, then the defaults when nothing failed before them.
engine_loadconf(c) ==
    LET ret  == l_dobytecode(c.paths)
        read == IF c.path = "present" THEN l_dobytecode(c.file) ELSE ret
    IN  IF l_dobytecode(c.sandbox) /= kr_ok THEN "ENOEXEC"
        ELSE IF c.path = "-" THEN ret
        ELSE IF read = kr_ok THEN l_dobytecode(c.defaults)
        ELSE read

\* engine_start: a failed engine_loadconf is returned at once; otherwise the timer
\* is allocated and, when the allocation succeeds, started, and kr_ok is returned.
engine_start(c, malloc) ==
    LET ret == engine_loadconf(c)
    IN  IF ret /= kr_ok
        THEN [ret |-> ret, updater |-> "NULL", timer |-> <<0, 0>>]
        ELSE IF malloc = "ok"
        THEN [ret |-> kr_ok, updater |-> "armed", timer |-> <<CLEANUP_TIMER, CLEANUP_TIMER>>]
        ELSE [ret |-> kr_ok, updater |-> "NULL", timer |-> <<0, 0>>]

\* The addresses main binds, each network_listen succeeding or failing.
BindOutcomes == UNION { [1..n -> {"ok", "fail"}] : n \in 0..MaxAddrs }

\* main: engine_init; a failure is logged and main returns EXIT_FAILURE. Where
\* init_state failed the built-in modules are registered on a NULL Lua state,
\* which a module that exposes properties dereferences.
MainEngineInit ==
    /\ main_pc = "engine_init"
    /\ \E state_ret \in InitStateOutcomes, resolver_ret \in InitResolverOutcomes,
          null_state \in {"unused", "dereferenced"}, loads \in BuiltInLoads :
        /\ null_state = "dereferenced" => state_ret /= kr_ok
        /\ first_error' = IF state_ret /= kr_ok THEN state_ret ELSE resolver_ret
        /\ IF null_state = "dereferenced"
           THEN /\ main_pc' = "exit"
                /\ exit_code' = "SIGSEGV"
                /\ deinits' = deinits + 1
                /\ UNCHANGED <<lua_state, init_ret, main_ret, modules>>
           ELSE LET e == engine_init(state_ret, resolver_ret, loads)
                IN  /\ lua_state' = e.L
                    /\ modules' = e.modules
                    /\ init_ret' = e.ret
                    /\ main_ret' = e.ret
                    /\ deinits' = deinits + e.deinits
                    /\ main_pc' = IF e.ret /= kr_ok THEN "exit" ELSE "init_worker"
                    /\ exit_code' = IF e.ret /= kr_ok THEN "EXIT_FAILURE" ELSE exit_code
    /\ UNCHANGED <<updater, timer, binds, conf, start_ret, loop_entered, stop_flag, stops,
                   timer_closes>>
    /\ UNCHANGED beside_engine

\* main: init_worker; without memory main returns EXIT_FAILURE.
MainInitWorker ==
    /\ main_pc = "init_worker"
    /\ \E worker \in {"ok", "NULL"} :
        /\ main_pc' = IF worker = "ok" THEN "bind" ELSE "exit"
        /\ exit_code' = IF worker = "ok" THEN exit_code ELSE "EXIT_FAILURE"
    /\ UNCHANGED <<lua_state, updater, timer, main_ret, init_ret, first_error, binds, conf,
                   start_ret, loop_entered, stop_flag, stops, timer_closes, deinits>>
    /\ UNCHANGED beside_life

\* main: the loop over addr_set. ret is assigned in every iteration, so after the
\* loop it tells how the last address went.
MainBind ==
    /\ main_pc = "bind"
    /\ \E b \in BindOutcomes :
        LET ret == IF b = <<>> THEN main_ret
                   ELSE IF b[Len(b)] = "fail" THEN "EXIT_FAILURE" ELSE kr_ok
        IN  /\ binds' = b
            /\ main_ret' = ret
            /\ main_pc' = IF ret = kr_ok THEN "engine_start" ELSE "cleanup"
    /\ UNCHANGED <<lua_state, updater, timer, init_ret, first_error, conf, start_ret,
                   loop_entered, stop_flag, stops, timer_closes, deinits, exit_code>>
    /\ UNCHANGED beside_life

\* main: engine_start and, when it succeeded, the key file command, whose text
\* may fail to be allocated: main then returns EXIT_FAILURE.
MainEngineStart ==
    /\ main_pc = "engine_start"
    /\ \E c \in Configs, malloc \in {"ok", "NULL"}, keyfile \in {"none", "ok", "NULL"} :
        LET started == engine_start(c, malloc)
        IN  /\ started.ret /= kr_ok => (malloc = "ok" /\ keyfile = "none")
            /\ conf' = c
            /\ start_ret' = started.ret
            /\ main_ret' = started.ret
            /\ updater' = started.updater
            /\ timer' = started.timer
            /\ main_pc' = IF started.ret /= kr_ok THEN "cleanup"
                          ELSE IF keyfile = "NULL" THEN "exit" ELSE "run_worker"
            /\ exit_code' = IF started.ret = kr_ok /\ keyfile = "NULL"
                            THEN "EXIT_FAILURE" ELSE exit_code
    /\ UNCHANGED <<lua_state, init_ret, first_error, binds, loop_entered, stop_flag,
                   stops, timer_closes, deinits>>
    /\ UNCHANGED beside_life

\* run_worker up to uv_run: the event loop is entered.
run_worker ==
    /\ main_pc = "run_worker"
    /\ main_pc' = "uv_run"
    /\ loop_entered' = TRUE
    /\ UNCHANGED <<lua_state, updater, timer, main_ret, init_ret, first_error, binds, conf,
                   start_ret, stop_flag, stops, timer_closes, deinits, exit_code>>
    /\ UNCHANGED beside_life

\* engine_stop, called by l_quit for every quit() a command evaluates: the timer
\* is stopped and closed when engine->updater is set, and engine->updater keeps
\* its value; uv_stop asks the loop to return.
engine_stop ==
    /\ main_pc = "uv_run"
    /\ stops < MaxStops
    /\ stops' = stops + 1
    /\ timer_closes' = IF updater /= "NULL" THEN timer_closes + 1 ELSE timer_closes
    /\ updater' = IF updater /= "NULL" THEN "closing" ELSE updater
    /\ stop_flag' = TRUE
    /\ UNCHANGED <<main_pc, lua_state, timer, main_ret, init_ret, first_error, binds, conf,
                   start_ret, loop_entered, deinits, exit_code>>
    /\ UNCHANGED beside_life

\* SIGINT or SIGTERM: uv_stop.
signal_handler ==
    /\ main_pc = "uv_run"
    /\ stop_flag' = TRUE
    /\ UNCHANGED <<main_pc, lua_state, updater, timer, main_ret, init_ret, first_error, binds,
                   conf, start_ret, loop_entered, stops, timer_closes, deinits, exit_code>>
    /\ UNCHANGED beside_life

\* uv_run returns once the loop was asked to stop; run_worker returns kr_ok.
uv_run_returns ==
    /\ main_pc = "uv_run"
    /\ stop_flag
    /\ main_pc' = "cleanup"
    /\ main_ret' = kr_ok
    /\ UNCHANGED <<lua_state, updater, timer, init_ret, first_error, binds, conf, start_ret,
                   loop_entered, stop_flag, stops, timer_closes, deinits, exit_code>>
    /\ UNCHANGED beside_life

\* main from "Cleanup." on: engine_deinit, and the exit status.
MainCleanup ==
    /\ main_pc = "cleanup"
    /\ lua_state' = lua_close(lua_state)
    /\ modules' = engine_deinit(modules)
    /\ deinits' = deinits + 1
    /\ exit_code' = IF main_ret /= kr_ok THEN "EXIT_FAILURE" ELSE "EXIT_SUCCESS"
    /\ main_pc' = "exit"
    /\ UNCHANGED <<updater, timer, main_ret, init_ret, first_error, binds, conf, start_ret,
                   loop_entered, stop_flag, stops, timer_closes>>
    /\ UNCHANGED beside_engine

LifeInit ==
    /\ RegistryIdle
    /\ MapIdle(<<>>)
    /\ PackIdle
    /\ LifeIdle
    /\ TtyIdle

LifeNext ==
    \/ MainEngineInit
    \/ MainInitWorker
    \/ MainBind
    \/ MainEngineStart
    \/ run_worker
    \/ engine_stop
    \/ signal_handler
    \/ uv_run_returns
    \/ MainCleanup

LifeSpec == LifeInit /\ [][LifeNext]_vars

\* ------------------------------------------------------ control channel actions
\* The read callback on the process's own input (interactive) or on an accepted
\* connection.
TtyRead ==
    /\ tty_proc = "running"
    /\ \E stream \in (IF g_interactive THEN {STDIN_FILENO} ELSE clients),
          nread \in NreadValues, res \in CmdResults, dup \in DupOutcomes :
        LET remote == stream /= STDIN_FILENO
            did == tty_read(remote, nread, res, g_quiet, dup)
        IN  /\ nread <= 0 => res = [ret |-> "ok", top |-> "none"]
            /\ (~remote \/ nread <= 0) => dup = "ok"
            /\ clients' = IF did.closed THEN uv_close_stream(clients, stream) ELSE clients
            /\ dups_open' = dups_open + did.dup_opened - did.dup_closed
            /\ stdout_open' = (stdout_open /\ ~did.stdout_closed)
            /\ tty_proc' = IF did.crashed THEN "crashed" ELSE "running"
            /\ tty_call' = TtyCall("read", stream, nread, res, dup, did, "")
    /\ old_clients' = clients
    /\ UNCHANGED <<g_quiet, g_interactive, listener, accepted>>
    /\ UNCHANGED beside_tty

\* The connection callback of the listener.
tty_accept ==
    /\ tty_proc = "running"
    /\ listener = "listening"
    /\ accepted < MaxClients
    /\ \E outcome \in {"ok", "malloc_fail", "accept_fail"} :
        LET client == accepted + 1
        IN  /\ clients' = IF outcome = "ok" THEN clients \cup {client} ELSE clients
            /\ accepted' = IF outcome = "ok" THEN client ELSE accepted
            /\ tty_call' = TtyCall("accept", client, 0, [ret |-> "ok", top |-> "none"],
                                   outcome, NoTtyCall.did,
                                   IF outcome = "ok" /\ ~g_quiet THEN "> " ELSE "")
    /\ old_clients' = clients
    /\ UNCHANGED <<g_quiet, g_interactive, listener, dups_open, stdout_open, tty_proc>>
    /\ UNCHANGED beside_tty

\* run_worker has set up the control channel: the process's own input when
\* interactive, else the listening pipe.
TtyInit ==
    /\ RegistryIdle
    /\ MapIdle(<<>>)
    /\ PackIdle
    /\ LifeIdle
    /\ g_quiet \in BOOLEAN
    /\ g_interactive \in BOOLEAN
    /\ listener = IF g_interactive THEN "none" ELSE "listening"
    /\ clients = {}
    /\ accepted = 0
    /\ tty_call = NoTtyCall
    /\ old_clients = {}
    /\ dups_open = 0
    /\ stdout_open = TRUE
    /\ tty_proc = "running"

TtyNext ==
    \/ TtyRead
    \/ tty_accept

TtySpec == TtyInit /\ [][TtyNext]_vars

\* ============================================================ properties
\* Helpers of the properties below.
\* The names of the modules in arr.
NameSet(arr) == { arr[k].name : k \in 1..Len(arr) }

NoDup(arr) == \A a, b \in 1..Len(arr) : a /= b => arr[a].name /= arr[b].name

\* arr without the modules called name, the others in their order.
Without(arr, name) == SelectSeq(arr, LAMBDA m : m.name /= name)

\* 1-based position of the module called name in arr (name occurs in arr).
Pos(arr, name) == CHOOSE k \in 1..Len(arr) : arr[k].name = name

\* arr with v inserted so that it becomes element p (1-based).
InsertAt(arr, p, v) ==
    [k \in 1..(Len(arr) + 1) |-> IF k < p THEN arr[k] ELSE IF k = p THEN v ELSE arr[k - 1]]

\* Entry k of a Lua table, nil when the key is absent.
Entry(t, k) == IF k \in DOMAIN t THEN t[k] ELSE "nil"

Registered(ok_call) == call.op = "register" /\ call.name /= NULL /\ ok_call

\* A register call of a name that was not registered, with directive prec and an
\* existing reference, that succeeded.
FreshPlaced(prec) ==
    /\ call.op = "register"
    /\ call.ret = kr_ok
    /\ call.precedence = prec
    /\ call.name \notin NameSet(old_modules) \cup {NULL}
    /\ call.ref \in NameSet(old_modules)

\* The load of the plugin failed: neither a native nor a scripted plugin of that
\* name, or the plugin's initialisation failed.
LoadFailed == call.op = "register" /\ call.ret \in {"EINIT", "ENOENT"}

\* C1: after any sequence of engine_register and engine_unregister calls, no two
\* entries of the module list have the same name.
C1_UniqueNames == NoDup(modules)

\* C1 witness: a registered name was registered again, next to other modules.
C1_Witness ==
    /\ call.op = "register"
    /\ call.ret = kr_ok
    /\ call.name \in NameSet(old_modules)
    /\ Len(modules) >= 3

\* C2 as stated: the names in the list are the names registered and not
\* subsequently unregistered, i.e. over calls whose plugin load succeeds the name
\* set changes only by a successful register adding its name and a successful
\* unregister removing its name, and there is no duplicate.
C2_Original ==
    /\ NoDup(modules)
    /\ (call.op = "register" /\ call.load \in {"native", "lua"}) =>
          NameSet(modules) = (IF call.ret = kr_ok THEN NameSet(old_modules) \cup {call.name}
                              ELSE NameSet(old_modules))
    /\ call.op = "unregister" =>
          NameSet(modules) = (IF call.ret = kr_ok THEN NameSet(old_modules) \ {call.name}
                              ELSE NameSet(old_modules))

\* C2 amended: the names in the list are exactly the names whose latest register
\* call succeeded and that were not unregistered since (a failed register of a
\* registered name removes it), without duplicate.
C2_NameSetIsLive ==
    /\ NameSet(modules) = live
    /\ Len(modules) = Cardinality(live)

\* C2 witness: a register of a registered name failed and the name is gone, other
\* modules staying.
C2_Witness ==
    /\ call.op = "register"
    /\ call.ret /= kr_ok
    /\ call.name \in NameSet(old_modules)
    /\ call.name \notin NameSet(modules)
    /\ Len(modules) >= 1

\* C3: registering a not yet registered module B with precedence "after" (">") and
\* an existing reference A puts B at the index right after A, wherever A is, and
\* leaves all other modules in their order.
C3_AfterReference ==
    FreshPlaced(">") =>
        LET p == Pos(old_modules, call.ref)
        IN  /\ Len(modules) = Len(old_modules) + 1
            /\ modules[p].name = call.ref
            /\ modules[p + 1].name = call.name
            /\ modules = InsertAt(old_modules, p + 1, LoadedModule(call.name))

\* C3 witness: B was registered after a reference in the middle of three modules.
C3_Witness ==
    /\ FreshPlaced(">")
    /\ Len(old_modules) = 3
    /\ old_modules[2].name = call.ref

\* C4: registering a not yet registered module B with precedence "before" ("<") and
\* an existing reference A puts B at A's old index, moves A and every later module
\* back by one, and lengthens the list by one.
C4_BeforeReference ==
    FreshPlaced("<") =>
        LET p == Pos(old_modules, call.ref)
        IN  /\ Len(modules) = Len(old_modules) + 1
            /\ modules[p].name = call.name
            /\ \A k \in 1..Len(old_modules) :
                  IF k < p THEN modules[k] = old_modules[k]
                  ELSE modules[k + 1] = old_modules[k]

\* C4 witness: B was registered before the first of two or more modules and is the
\* new first module.
C4_Witness ==
    /\ FreshPlaced("<")
    /\ Len(old_modules) >= 2
    /\ old_modules[1].name = call.ref
    /\ modules[1].name = call.name

\* C5: engine_unregister of a name that is not in the list returns not-found and
\* leaves the list as it was.
C5_UnregisterAbsent ==
    (call.op = "unregister" /\ call.name \notin NameSet(old_modules)) =>
        /\ call.ret = "ENOENT"
        /\ modules = old_modules

\* C5 witness: a name that is not registered was unregistered from a list of two
\* or more modules.
C5_Witness ==
    /\ call.op = "unregister"
    /\ call.name \notin NameSet(old_modules)
    /\ Len(old_modules) >= 2

\* C6: a successful engine_unregister(name) removes exactly the entry of that name,
\* shortens the list by one and moves the later entries down, the others keeping
\* their order.
C6_UnregisterRemovesOne ==
    (call.op = "unregister" /\ call.ret = kr_ok) =>
        /\ Len(modules) = Len(old_modules) - 1
        /\ \E p \in 1..Len(old_modules) :
              /\ old_modules[p].name = call.name
              /\ \A k \in 1..Len(modules) :
                    modules[k] = (IF k < p THEN old_modules[k] ELSE old_modules[k + 1])

\* C6 witness: the middle one of three modules was unregistered.
C6_Witness ==
    /\ call.op = "unregister"
    /\ call.ret = kr_ok
    /\ Len(old_modules) = 3
    /\ old_modules[2].name = call.name

\* C7 as stated: when the plugin load fails, the module list and the globals are
\* the same as before the call, whatever was registered.
C7_Original == LoadFailed => (modules = old_modules /\ globals = old_globals)

\* C7 amended: when the plugin load fails the call returns an error and adds
\* nothing; a module registered under that name before the call has been unloaded
\* (removed from the list, its global cleared unless its name could not be
\* duplicated), every other module and global is
\* as before, and with the name not registered before nothing changes at all.
C7_LoadFailureUnloadsOnly ==
    LoadFailed =>
        /\ call.ret /= kr_ok
        /\ modules = Without(old_modules, call.name)
        /\ globals = (IF call.name \in NameSet(old_modules) /\ call.name_dup /= NULL
                      THEN lua_setglobal_nil(old_globals, call.name)
                      ELSE old_globals)
        /\ call.name \notin NameSet(old_modules) =>
              (modules = old_modules /\ globals = old_globals)

\* C7 witness: the load failed for a name that was registered with a global, next
\* to another module.
C7_Witness ==
    /\ LoadFailed
    /\ call.name \in NameSet(old_modules)
    /\ \E p \in old_globals : p[1] = call.name
    /\ Len(modules) >= 1

\* C8 as stated: with a precedence given the call succeeds only for a recognised
\* directive and a registered reference; an unknown directive, a missing reference,
\* an unregistered reference or a reference equal to the name fail with
\* reference-not-found and do not add the module.
C8_Original ==
    (Registered(call.precedence /= NULL) /\ call.load \in {"native", "lua"}) =>
        LET good == /\ call.precedence \in {"<", ">"}
                    /\ call.ref \in NameSet(old_modules)
                    /\ call.ref /= call.name
        IN  IF good THEN call.ret = kr_ok
            ELSE call.ret = "EIDRM" /\ call.name \notin NameSet(modules)

\* C8 amended: with a precedence and a reference given, the call fails with
\* reference-not-found, adding nothing, exactly when the reference names no module
\* of the list left after the name's own earlier entry was unloaded (so also when
\* it equals the name); the directive is not validated: with an unknown directive
\* or no reference the call does not fail on the reference and a loaded module
\* goes to the end of the list.
C8_ReferenceCheck ==
    Registered(call.precedence /= NULL) =>
        LET rest == Without(old_modules, call.name)
        IN  /\ call.ret = "EIDRM" <=>
                  (call.ref /= NULL /\ call.ref \notin NameSet(rest))
            /\ call.ret = "EIDRM" => modules = rest
            /\ (call.ret = kr_ok /\ (call.ref = NULL \/ call.precedence = "~")) =>
                  modules = Append(rest, LoadedModule(call.name))

\* C8 witness: an unknown directive with a registered reference that is not the
\* last module: the call succeeded and the module is at the end.
C8_Witness ==
    /\ Registered(call.precedence = "~")
    /\ call.ret = kr_ok
    /\ Len(old_modules) >= 2
    /\ old_modules[1].name = call.ref
    /\ modules[Len(modules)].name = call.name

\* C9: the reply set of map(command) over N sibling pipes has exactly N + 1
\* entries, the first being the leader's result and entry k + 1 the outcome of the
\* k-th sibling, for every leader outcome (value, error, nothing).
C9_ReplySetLayout ==
    pc = "returned" =>
        /\ lua_rawlen(reply) = Len(ipc_set) + 1
        /\ Entry(reply, 1) = local
        /\ \A k \in 1..Len(ipc_set) : Entry(reply, k + 1) = served[k]

\* C10: a broadcast with zero sibling pipes returns a reply set of length exactly
\* 1 whose only entry is the leader's result, also when the command yields nothing.
C10_NoSiblings ==
    (pc = "returned" /\ Len(ipc_set) = 0) =>
        /\ Cardinality(DOMAIN reply) = 1
        /\ Entry(reply, 1) = local

\* The exchanges that end in a failed or partial write of the length prefix or of
\* the command bytes.
WriteFailures == {"write_len_fail", "write_cmd_fail"}

\* The reply set the same broadcast returns when the exchange with sibling k ends
\* in a decoded reply instead.
HadSucceeded(k) ==
    l_map(local, [exchanged EXCEPT ![k] = [io |-> "decoded", text |-> "r1"]])

\* C11: when the write of the length prefix or of the command bytes to sibling k
\* fails, the reply set holds false in sibling k's slot (entry k + 1), every later
\* sibling is still contacted, and the leader's slot and every other sibling's
\* slot hold the values they hold when sibling k succeeds.
C11_WriteFailureIsolated ==
    pc = "returned" =>
        \A k \in 1..Len(ipc_set) :
            exchanged[k].io \in WriteFailures =>
                /\ Entry(reply, k + 1) = "false"
                /\ Len(exchanged) = Len(ipc_set)
                /\ \A s \in 1..(Len(ipc_set) + 1) :
                      s /= k + 1 => Entry(reply, s) = Entry(HadSucceeded(k), s)

\* The exchanges for which l_map records the failure marker: a failed write, a
\* failed or short read, an allocation failure.
MarkedFailures ==
    WriteFailures \cup {"read_len_fail", "malloc_fail", "read_body_fail"}

\* C12: a reply read completely whose body does not decode is stored in that
\* sibling's slot (entry k + 1) as the raw reply text and the broadcast goes on to
\* the last sibling; false is in a sibling's slot only when its exchange ended in
\* a failed write, a failed or short read, or an allocation failure.
C12_RawReplyKept ==
    pc = "returned" =>
        \A k \in 1..Len(ipc_set) :
            /\ exchanged[k].io = "raw" =>
                  /\ Entry(reply, k + 1) = "raw:" \o exchanged[k].text
                  /\ Len(exchanged) = Len(ipc_set)
            /\ Entry(reply, k + 1) = "false" => exchanged[k].io \in MarkedFailures

\* What a Lua value holds, whatever the order of the entries of a table.
RECURSIVE Content(_)
Content(v) ==
    [tag |-> v.tag, s |-> v.s,
     kv |-> { [key |-> v.kv[k].key, val |-> Content(v.kv[k].val)] : k \in 1..Len(v.kv) }]

KeySet(v) == { v.kv[k].key : k \in 1..Len(v.kv) }

IsPod(v) == v.tag \in {"string", "number", "boolean"}

\* A table whose keys are the contiguous integers 1..n.
IsSequence(v) ==
    /\ v.tag = "table"
    /\ KeySet(v) = { LuaNumber(k) : k \in 1..Len(v.kv) }

ArrayOfPods(v) == IsSequence(v) /\ \A k \in 1..Len(v.kv) : IsPod(v.kv[k].val)

ObjectOfPods(v) ==
    /\ v.tag = "table"
    /\ \A k \in 1..Len(v.kv) : v.kv[k].key.tag = "string" /\ IsPod(v.kv[k].val)

\* C13: unmarshal(marshal(v)) = v for v a string, a number, a boolean, an array of
\* such scalars, or an object with string keys mapping to such scalars; types are
\* kept (a boolean stays a boolean, a number a number).
C13_RoundTrip ==
    (pack_pc = "unpacked" /\ (IsPod(lua_value) \/ ArrayOfPods(lua_value) \/ ObjectOfPods(lua_value)))
        => Content(lua_result) = Content(lua_value)

\* C13 witness: {ok = true, count = 3} went through and came back with a boolean
\* true and a number 3.
C13_Witness ==
    /\ pack_pc = "unpacked"
    /\ Content(lua_value) =
           Content(LuaTable(<<[key |-> LuaString("ok"), val |-> LuaBoolean(TRUE)],
                              [key |-> LuaString("count"), val |-> LuaNumber(3)]>>))
    /\ Content(lua_result) = Content(lua_value)

\* C14: marshal encodes a table as an array exactly when its keys are the
\* contiguous integers 1..n and as an object for every other table (string keys,
\* mixed keys, sparse integer keys, keys not starting at 1); strings, numbers and
\* booleans map directly and every other type becomes null.
C14_ArrayIffSequence ==
    pack_pc \in {"packed", "error"} =>
        CASE lua_value.tag = "string"  -> json_text = <<Tok("string", lua_value.s)>>
          [] lua_value.tag = "number"  -> json_text = <<Tok("number", lua_value.s)>>
          [] lua_value.tag = "boolean" -> json_text = <<Tok("literal", lua_value.s)>>
          [] lua_value.tag = "table" /\ lua_value.kv /= <<>> ->
                /\ pack_pc = "packed"
                /\ Head(json_text).t = IF IsSequence(lua_value) THEN "[" ELSE "{"
          [] lua_value.tag = "table" /\ lua_value.kv = <<>> -> pack_pc = "packed"
          [] OTHER                     -> json_text = <<Tok("literal", "null")>>

\* C15: when a step of engine_init fails (init_state, then init_resolver),
\* engine_init has torn down what was built and returns the error of the first
\* step that failed; it never returns success after a failed step.
C15_InitReturnsFirstError ==
    (init_ret /= "none" /\ first_error /= kr_ok) =>
        /\ init_ret = first_error
        /\ deinits >= 1

\* C16: over any number of engine_stop calls the maintenance timer is stopped and
\* closed at most once.
C16_TimerClosedOnce == timer_closes <= 1

\* A script of the configuration fails: the sandbox, the configuration file, or
\* the defaults.
ConfigFailed(c) ==
    \/ c.sandbox = "fail"
    \/ c.path /= "-" /\ ((c.path = "present" /\ c.file = "fail") \/ c.defaults = "fail")

\* C17: when loading the configuration fails, engine_start returns an error and
\* has not armed the timer, the event loop is never entered, and the process
\* tears the engine down and exits non-zero.
C17_ConfigFailureAborts ==
    (start_ret /= "none" /\ ConfigFailed(conf)) =>
        /\ start_ret /= kr_ok
        /\ updater = "NULL"
        /\ ~loop_entered
        /\ main_pc \in {"cleanup", "exit"}
        /\ main_pc = "exit" => (deinits >= 1 /\ exit_code = "EXIT_FAILURE")

\* C17 witness: the configuration file exists and fails; the process has exited
\* with EXIT_FAILURE after engine_deinit, the loop never entered.
C17_Witness ==
    /\ main_pc = "exit"
    /\ start_ret \notin {"none", kr_ok}
    /\ conf.path = "present" /\ conf.file = "fail" /\ conf.sandbox = "ok"
    /\ ~loop_entered
    /\ deinits >= 1
    /\ exit_code = "EXIT_FAILURE"

Range(seq) == { seq[k] : k \in 1..Len(seq) }

\* The last callback was a read callback that executed a command.
Executed == tty_call.op = "read" /\ tty_call.did.executed /\ ~tty_call.did.crashed

\* C18: in quiet mode the control channel writes no prompt after a command, no
\* trailing newline when the command produced no result, and still writes the
\* error message of a failed command.
C18_QuietMode ==
    (Executed /\ g_quiet) =>
        LET written == Range(tty_call.did.sent) \cup Range(tty_call.did.std)
        IN  /\ "> " \notin written
            /\ tty_call.res.top = "none" => "\n" \notin written
            /\ (tty_call.res.ret = "error" /\ tty_call.res.top = "text") =>
                  /\ "error message" \in Range(tty_call.did.std)
                  /\ tty_call.did.std_to = "stderr"
                  /\ tty_call.stream /= STDIN_FILENO =>
                        "error message" \in Range(tty_call.did.sent)

C20_DisconnectClosesOne ==
    /\ (tty_call.op = "read" /\ tty_call.stream /= STDIN_FILENO /\ tty_call.nread <= 0) =>
          /\ clients = old_clients \ {tty_call.stream}
          /\ ~tty_call.did.executed
          /\ tty_call.did.sent = <<>> /\ tty_call.did.std = <<>>
          /\ listener = "listening"
          /\ tty_proc = "running"
    /\ (tty_call.op = "accept" /\ tty_call.dup = "ok") =>
          /\ clients = old_clients \cup {tty_call.stream}
          /\ listener = "listening"

\* C20 witness: one of several open connections was seen disconnected after the
\* listener had accepted them; the others are still open.
C20_Witness ==
    /\ tty_call.op = "read"
    /\ tty_call.nread <= 0
    /\ tty_call.stream \in old_clients
    /\ tty_call.stream \notin clients
    /\ clients /= {}
    /\ accepted < MaxClients
    /\ listener = "listening"

\* ------------------------------------------------------------------ C21
\* Some configured endpoint was bound.
SomeBound == \E k \in 1..Len(binds) : binds[k] = "ok"

\* C21: once main is past the bind loop, a configured endpoint that was bound
\* means the engine is started: main stands at engine_start or has called it. Only
\* when every bind failed does main go to its cleanup without starting the engine.
C21_StartedUnlessAllBindsFail ==
    (main_pc \notin {"engine_init", "init_worker", "bind"} /\ SomeBound)
        => (main_pc = "engine_start" \/ start_ret /= "none")

\* ------------------------------------------------------------------ C22
\* Position in ipc_set of the sibling behind descriptor fd.
FdIndex(fd) == CHOOSE k \in 1..Len(ipc_set) : ipc_set[k] = fd

\* The pipe operations made on descriptor fd, in the order made.
EventsOf(fd) == SelectSeq(io_log, LAMBDA e : e.fd = fd)

\* The exchange with one sibling, operation by operation.
Protocol ==
    << <<"write", "length">>, <<"write", "body">>, <<"read", "length">>, <<"read", "body">> >>

\* The operations ev made on one sibling follow the protocol from its start, stop
\* at the first one that fails, carry the byte counts of the protocol, and end
\* with the sibling's slot.
FollowsProtocol(ev) ==
    LET n == Len(ev) - 1
    IN  /\ n \in 1..Len(Protocol)
        /\ ev[n + 1].op = "slot"
        /\ \A j \in 1..n : <<ev[j].op, ev[j].part>> = Protocol[j]
        /\ \A j \in 1..(n - 1) : ev[j].ok
        /\ ev[1].count = 4 /\ ev[1].value = cmd_len
        /\ n >= 2 => ev[2].count = ev[1].value
        /\ n >= 3 => ev[3].count = 4
        /\ n >= 4 => ev[4].count = ev[3].value

\* The operations ev are the two writes of the request, both complete.
RequestSent(ev) ==
    /\ Len(ev) = 2
    /\ \A j \in 1..2 : <<ev[j].op, ev[j].part>> = Protocol[j] /\ ev[j].ok
    /\ ev[1].count = 4 /\ ev[1].value = cmd_len
    /\ ev[2].count = ev[1].value

\* C22: during and after a broadcast the pipe operations are grouped by sibling in
\* ipc_set order; on each sibling the leader writes the 4-byte command length,
\* then that many command bytes, then reads the 4-byte reply length, then that
\* many reply bytes, and stops at the first operation that fails, so it never
\* reads after a failed write; and no write to a sibling comes before the slot of
\* every sibling operated on earlier is recorded.
C22_OneAfterAnother ==
    /\ \A a, b \in 1..Len(io_log) :
          a < b => FdIndex(io_log[a].fd) <= FdIndex(io_log[b].fd)
    /\ \A a, b \in 1..Len(io_log) :
          (a < b /\ io_log[a].fd /= io_log[b].fd /\ io_log[b].op = "write")
              => \E c \in a..(b - 1) : io_log[c].fd = io_log[a].fd /\ io_log[c].op = "slot"
    /\ \A k \in 1..Len(ipc_set) :
          IF k <= i THEN FollowsProtocol(EventsOf(ipc_set[k]))
          ELSE IF pc = "blocked" /\ k = i + 1 THEN RequestSent(EventsOf(ipc_set[k]))
          ELSE EventsOf(ipc_set[k]) = <<>>

\* A broadcast over two siblings has returned: the command write to the first
\* failed, the second replied in full.
C22_Witness ==
    /\ pc = "returned"
    /\ Len(exchanged) = 2
    /\ exchanged[1].io = "write_cmd_fail"
    /\ exchanged[2].io = "decoded"
    /\ Len(io_log) = 8

\* ------------------------------------------------------------------ C23
\* l_map is in its loop over the siblings.
InBroadcast == pc \in {"siblings", "blocked"}

C24_DeinitOnce == deinits <= 1

\* ------------------------------------------------------------------ C25
\* C25: once engine_init has returned success, and until engine_deinit runs, the
\* module list holds iterate, validate, rrcache, pktcache, in this order and
\* nothing else.
C25_BuiltInsRegistered ==
    (init_ret = kr_ok /\ main_pc \notin {"engine_init", "exit"})
        => [k \in 1..Len(modules) |-> modules[k].name] = BuiltIns

\* ------------------------------------------------------------------ C26
\* C26: once engine_start has returned success, while main runs the worker and
\* until the engine is told to stop, the maintenance timer is armed, with a first firing and a repeat interval
\* of 300000 ms.
C26_StartedMeansArmed ==
    (start_ret = kr_ok /\ main_pc \in {"run_worker", "uv_run"} /\ stops = 0)
        => (updater = "armed" /\ timer = <<300000, 300000>>)

\* ------------------------------------------------------------------ C27
\* The operations ev of one exchange leave the pipe between two messages: either
\* not even the length prefix of the request went out in full, or the request was
\* written and the reply read to its last byte. In between, a prefix has been
\* transferred whose body, or a request whose reply, is still owed.
AtBoundary(ev) ==
    LET done == { j \in 1..Len(ev) : ev[j].op /= "slot" /\ ev[j].ok }
    IN  done = {} \/ done = 1..Len(Protocol)

\* C27: when a broadcast has returned, the pipe of every sibling is at a message
\* boundary, whichever of its writes and reads failed.
C27_LeftAtBoundary ==
    pc = "returned" => \A k \in 1..Len(ipc_set) : AtBoundary(EventsOf(ipc_set[k]))

\* ------------------------------------------------------------------ C28
\* C28: whatever commands the control connections have sent, the process's own
\* standard output is open: no tty_read has closed it.
C28_StdoutStaysOpen == stdout_open

\* ------------------------------------------------------------------ C29
\* The module called name is in the list and has a config or a props entry point.
Published(name) ==
    \E k \in 1..Len(modules) :
        modules[k].name = name /\ (modules[k].config \/ modules[k].props)

\* C29: after any sequence of register and unregister calls, the Lua state has a
\* global named after a module exactly when that module is in the list and is
\* configurable or queryable, and the global then holds its entry points.
C29_GlobalIffPublished ==
    \A name \in Names :
        /\ (\E p \in globals : p[1] = name) <=> Published(name)
        /\ \A p \in globals : p[1] = name => p[2] = EntryPoints(LoadedModule(name))

====
